---- MODULE Spec2Model ----
(***************************************************************************)
(* A model of the workflow tools of github-mcp-server: the Bazel log       *)
(* analyzer (log-analyzer.ts) with its two excerpt extractors, the archive *)
(* fetcher (downloader.ts), the orchestrator analyzeWorkflowLogs, and the  *)
(* workflow-run wrappers (workflows.ts, ci_workflows.ts).                  *)
(*                                                                         *)
(* A JavaScript string is a sequence of one-character strings, so that     *)
(* split, join, trim, includes, substring, toLowerCase and the regular     *)
(* expression are computed on characters, as the code computes them.       *)
(***************************************************************************)
EXTENDS Integers, Sequences, FiniteSets, TLC

VARIABLES
    content,    \* the argument of the extractor under test
    call,       \* which function was applied to content ("none" before the call)
    ret,        \* what that call returned
    folder,     \* the file system under extractedDir/bazelLogsFolderName
    pc,         \* position of analyzeBazelLogs
    files,      \* analyzeBazelLogs' local `files` (result of readdirSync)
    fsOps,      \* the fs calls analyzeBazelLogs has made, in order
    outcome,    \* how analyzeBazelLogs ended: returned value or thrown error
    now,            \* the system clock, in milliseconds
    entry,          \* per invocation: the exported function that was called
    wpc,            \* per invocation: the await it is suspended at
    outputDir,      \* per invocation: downloadAndUnzip's outputDir (the analysisDir)
    tempFile,       \* per directory: whether a file is at tempFilePath
    fileStream,     \* per invocation: the state of its fs.WriteStream
    written,        \* per invocation: how much of the body the stream has written
    downloadResult, \* per invocation: what downloadAndUnzip returned
    trace,          \* per invocation: the steps it has completed, in order
    result,         \* per invocation: how the call ended
    env,        \* process.env
    op,         \* the workflow-run wrapper that was called, with its options
    opPc,       \* position of the wrapper
    requests,   \* the HTTP requests issued, in order
    response,   \* the response the wrapper's request got
    opOutcome   \* how the wrapper ended

\* the variables of the extractors and of analyzeBazelLogs
analyzerVars == <<content, call, ret, folder, pc, files, fsOps, outcome>>
\* the variables of downloadAndUnzip and analyzeWorkflowLogs
logsVars == <<now, entry, wpc, outputDir, tempFile, fileStream, written, downloadResult,
              trace, result>>
\* the variables of the workflow-run wrappers
apiVars == <<env, op, opPc, requests, response, opOutcome>>

vars == <<analyzerVars, logsVars, apiVars>>

-----------------------------------------------------------------------------
(* Bounds of the model *)

\* filler lines before the first marker line of a generated text
MaxPre == 10
\* filler lines after the marker line of a generated text
MaxPost == 20
\* entries of the log subfolder
MaxFiles == 3
\* concurrent invocations of analyzeWorkflowLogs and downloadAndUnzip
MaxInvocations == 2

-----------------------------------------------------------------------------
(* JavaScript primitives *)

Min(a, b) == IF a < b THEN a ELSE b
Max(a, b) == IF a > b THEN a ELSE b

NL == "\n"

UpperCase == <<"A","B","C","D","E","F","G","H","I","J","K","L","M",
               "N","O","P","Q","R","S","T","U","V","W","X","Y","Z">>
LowerCase == <<"a","b","c","d","e","f","g","h","i","j","k","l","m",
               "n","o","p","q","r","s","t","u","v","w","x","y","z">>

\* String.prototype.toLowerCase on one character
UpperSet == {UpperCase[k] : k \in 1..26}
LowerChar(c) ==
    IF c \in UpperSet
    THEN LowerCase[CHOOSE k \in 1..26 : UpperCase[k] = c]
    ELSE c

\* String.prototype.toLowerCase
toLowerCase(s) == [i \in 1..Len(s) |-> LowerChar(s[i])]

\* String.prototype.includes
includes(s, t) ==
    \E i \in 0..(Len(s) - Len(t)) : \A k \in 1..Len(t) : s[i + k] = t[k]

\* the characters String.prototype.trim strips (those the model's texts use)
WhiteSpace == {" ", "\t", "\n", "\r"}

\* String.prototype.trim
trim(s) ==
    IF \A i \in 1..Len(s) : s[i] \in WhiteSpace THEN <<>>
    ELSE SubSeq(s,
            CHOOSE i \in 1..Len(s) :
                s[i] \notin WhiteSpace /\ \A j \in 1..(i - 1) : s[j] \in WhiteSpace,
            CHOOSE i \in 1..Len(s) :
                s[i] \notin WhiteSpace /\ \A j \in (i + 1)..Len(s) : s[j] \in WhiteSpace)

\* String.prototype.split(sep) for a one-character separator
split(s, sep) ==
    LET at  == {i \in 1..Len(s) : s[i] = sep}
        n   == Cardinality(at)
        pos == [k \in 1..n |-> CHOOSE i \in at : Cardinality({j \in at : j < i}) = k - 1]
    IN  [k \in 1..(n + 1) |->
            SubSeq(s, IF k = 1 THEN 1 ELSE pos[k - 1] + 1,
                      IF k = n + 1 THEN Len(s) ELSE pos[k] - 1)]

\* Array.prototype.join(sep)
RECURSIVE join(_, _)
join(lines, sep) ==
    IF Len(lines) = 0 THEN <<>>
    ELSE IF Len(lines) = 1 THEN lines[1]
    ELSE join(SubSeq(lines, 1, Len(lines) - 1), sep) \o <<sep>> \o lines[Len(lines)]

\* Array.prototype.slice(start, end) and String.prototype.substring(start, end)
\* for 0 <= start: 0-based, end exclusive, clamped to the length
slice(a, start, end) == SubSeq(a, start + 1, Min(end, Len(a)))
substring(s, start, end) == SubSeq(s, start + 1, Min(end, Len(s)))

\* Array.prototype.findIndex, given the callback's answer for each element: the
\* 0-based index of the first element it accepts, else -1
findIndex(accepts) ==
    LET hits == {i \in 1..Len(accepts) : accepts[i]}
    IN  IF hits = {} THEN -1
        ELSE (CHOOSE i \in hits : \A j \in hits : i <= j) - 1

-----------------------------------------------------------------------------
(* log-analyzer.ts: the extractors *)

\* alternatives of /ERROR:|FAILED:|Exception:|error:|failed:|BUILD FAILED/gi
errorPatterns == {
    <<"E","R","R","O","R",":">>,
    <<"F","A","I","L","E","D",":">>,
    <<"E","x","c","e","p","t","i","o","n",":">>,
    <<"e","r","r","o","r",":">>,
    <<"f","a","i","l","e","d",":">>,
    <<"B","U","I","L","D"," ","F","A","I","L","E","D">> }

\* s.match(pattern) is not null: some alternative occurs in s, letter case ignored (flag i)
lowerPatterns == {toLowerCase(p) : p \in errorPatterns}
matchPattern(s) ==
    LET low == toLowerCase(s)
    IN  \E p \in lowerPatterns : includes(low, p)

DetailLines == 10
FallbackChars == 500

\* extractErrorDetails with the match line followed by 10 lines instead of 9
extractErrorDetails_TenAfter(c) ==
    LET lines == split(c, NL)
        errorLineIndex == findIndex([i \in 1..Len(lines) |-> matchPattern(lines[i])])
    IN  IF matchPattern(c) /\ errorLineIndex >= 0
        THEN join(slice(lines, errorLineIndex,
                        Min(errorLineIndex + DetailLines + 1, Len(lines))), NL)
        ELSE substring(c, 0, FallbackChars)
                \o (IF Len(c) > FallbackChars THEN <<".", ".", ".">> ELSE <<>>)

\* extractErrorDetails with the ellipsis already appended at exactly 500 characters
extractErrorDetails_EllipsisAtLimit(c) ==
    LET lines == split(c, NL)
        errorLineIndex == findIndex([i \in 1..Len(lines) |-> matchPattern(lines[i])])
    IN  IF matchPattern(c) /\ errorLineIndex >= 0
        THEN join(slice(lines, errorLineIndex,
                        Min(errorLineIndex + DetailLines, Len(lines))), NL)
        ELSE substring(c, 0, FallbackChars)
                \o (IF Len(c) >= FallbackChars THEN <<".", ".", ".">> ELSE <<>>)

extractErrorDetails(c) ==
    LET lines == split(c, NL)
        errorLineIndex == findIndex([i \in 1..Len(lines) |-> matchPattern(lines[i])])
    IN  IF matchPattern(c) /\ errorLineIndex >= 0
        THEN join(slice(lines, errorLineIndex,
                        Min(errorLineIndex + DetailLines, Len(lines))), NL)
        ELSE substring(c, 0, FallbackChars)
                \o (IF Len(c) > FallbackChars THEN <<".", ".", ".">> ELSE <<>>)

errorIndicators == {
    <<"E","R","R","O","R",":">>,
    <<"F","A","I","L","E","D",":">>,
    <<"B","U","I","L","D"," ","F","A","I","L","E","D">>,
    <<"E","x","c","e","p","t","i","o","n",":">>,
    <<"e","r","r","o","r",":">>,
    <<"f","a","i","l","e","d",":">>,
    <<"E","x","e","c","u","t","i","o","n"," ","f","a","i","l","e","d">> }

\* containsErrors with letter case ignored, as the pattern of extractErrorDetails does
containsErrors_IgnoringCase(c) ==
    \E indicator \in errorIndicators : includes(toLowerCase(c), toLowerCase(indicator))

\* containsErrors blind to line breaks: an indicator is also found across two lines
containsErrors_AcrossLines(c) ==
    \E indicator \in errorIndicators : includes(SelectSeq(c, LAMBDA ch : ch # NL), indicator)

containsErrors(c) == \E indicator \in errorIndicators : includes(c, indicator)

ShortEnough == 2000
ContextBefore == 5
ContextAfter == 15
HeadLines == 10
TailLines == 20

\* extractRelevantContent with a text of exactly 2000 characters already cut down
extractRelevantContent_StrictLimit(c) ==
    IF Len(c) < ShortEnough THEN c
    ELSE
        LET lines == split(c, NL)
            firstErrorIndex == findIndex([i \in 1..Len(lines) |-> containsErrors(lines[i])])
            startIndex == Max(0, firstErrorIndex - ContextBefore)
            endIndex == Min(Len(lines), firstErrorIndex + ContextAfter)
            head == join(slice(lines, 0, HeadLines), NL)
            tail == join(slice(lines, Max(0, Len(lines) - TailLines), Len(lines)), NL)
        IN  IF firstErrorIndex >= 0
            THEN join(slice(lines, startIndex, endIndex), NL)
            ELSE head \o <<NL, NL, ".", ".", ".", NL, NL>> \o tail

\* extractRelevantContent with a tail of 19 lines instead of 20
extractRelevantContent_ShortTail(c) ==
    IF Len(c) <= ShortEnough THEN c
    ELSE
        LET lines == split(c, NL)
            firstErrorIndex == findIndex([i \in 1..Len(lines) |-> containsErrors(lines[i])])
            startIndex == Max(0, firstErrorIndex - ContextBefore)
            endIndex == Min(Len(lines), firstErrorIndex + ContextAfter)
            head == join(slice(lines, 0, HeadLines), NL)
            tail == join(slice(lines, Max(0, Len(lines) - (TailLines - 1)), Len(lines)), NL)
        IN  IF firstErrorIndex >= 0
            THEN join(slice(lines, startIndex, endIndex), NL)
            ELSE head \o <<NL, NL, ".", ".", ".", NL, NL>> \o tail

extractRelevantContent(c) ==
    IF Len(c) <= ShortEnough THEN c
    ELSE
        LET lines == split(c, NL)
            firstErrorIndex == findIndex([i \in 1..Len(lines) |-> containsErrors(lines[i])])
            startIndex == Max(0, firstErrorIndex - ContextBefore)
            endIndex == Min(Len(lines), firstErrorIndex + ContextAfter)
            head == join(slice(lines, 0, HeadLines), NL)
            tail == join(slice(lines, Max(0, Len(lines) - TailLines), Len(lines)), NL)
        IN  IF firstErrorIndex >= 0
            THEN join(slice(lines, startIndex, endIndex), NL)
            ELSE head \o <<NL, NL, ".", ".", ".", NL, NL>> \o tail

-----------------------------------------------------------------------------
(* The texts the extractors are applied to *)

\* lines with and without an indicator, in several letter cases
ErrorLine == <<"E","R","R","O","R",":"," ","d","i","s","k"," ","f","u","l","l">>
CompilerLine == <<"f","o","o",".","c","c",":","3",":"," ","e","r","r","o","r",":"," ","x">>
MixedCaseLine == <<"E","r","r","o","r",":"," ","y">>
ExecutionLine == <<"E","x","e","c","u","t","i","o","n"," ","f","a","i","l","e","d">>
LowerBuildLine == <<"b","u","i","l","d"," ","f","a","i","l","e","d">>
CleanLine == <<"a","l","l"," ","g","o","o","d">>
LaterErrorLine == <<"F","A","I","L","E","D",":"," ","a","g","a","i","n">>

Markers == {ErrorLine, CompilerLine, MixedCaseLine, ExecutionLine, LowerBuildLine, CleanLine}

FillerChars == <<"0","1","2","3","4","5","6","7","8","9">>

\* the filler line at 0-based line index i: w copies of a digit that depends on i
Filler(i, w) == [k \in 1..w |-> FillerChars[(i % 10) + 1]]

\* s with its last line lengthened so that the text has n characters (when it has fewer)
PadTo(s, n) == s \o [k \in 1..(n - Len(s)) |-> "x"]

\* pre filler lines, the marker line, post filler lines, then possibly a later error line
TextLines(pre, marker, post, w, later) ==
    [i \in 1..pre |-> Filler(i - 1, w)] \o <<marker>>
        \o [i \in 1..post |-> Filler(pre + i, w)]
        \o (IF later THEN <<LaterErrorLine>> ELSE <<>>)

Text(pre, marker, post, w, later, n) == PadTo(join(TextLines(pre, marker, post, w, later), NL), n)

\* short texts: every position of the marker line, with and without a later error line
ShortTexts ==
    {Text(pre, m, post, w, later, 0) :
        pre \in 0..MaxPre, m \in Markers, post \in 0..MaxPost, w \in {0, 2}, later \in BOOLEAN}

\* texts of exactly n characters, at and next to the 500 character threshold
ThresholdTexts ==
    {Text(pre, m, post, 1, FALSE, n) :
        pre \in 0..MaxPre, m \in {ErrorLine, MixedCaseLine, CleanLine},
        post \in {0, MaxPost}, n \in {500, 501}}

\* texts of exactly n characters, at and next to the 2000 character threshold
LongTexts ==
    {Text(pre, m, post, 1, FALSE, n) :
        pre \in 0..MaxPre, m \in {ErrorLine, CleanLine},
        post \in {0} \cup ((MaxPost - 7)..MaxPost), n \in {2000, 2001}}

Texts == ShortTexts \cup ThresholdTexts \cup LongTexts

NoReturn == [kind |-> "none"]
Returned(v) == [kind |-> "return", value |-> v]
Thrown(e) == [kind |-> "throw", error |-> e]

NoFolder == [kind |-> "absent", entries |-> <<>>]

\* the invocations, the directories they work in, and the state before any of them runs
Invocations == 1..MaxInvocations
\* the last millisecond the clock reaches: one reading for each invocation
MaxClock == MaxInvocations - 1
NoDir == "none"
\* new Date().toISOString().replace(/[:.]/g, '-') at millisecond t: one name per millisecond
StampNames == [t \in 0..MaxClock |-> <<"1970-01-01T00-00-00-00", ToString(t), "Z">>]
\* the outputDir of a direct call of downloadAndUnzip (the schema's default)
TmpDir == <<"/tmp">>
\* path.join(outputDir, stamp) under analyzeWorkflowLogs' outputDir
AnalysisDirAt(t) == <<"/tmp/workflow_logs">> \o StampNames[t]
Dirs == {TmpDir} \cup {AnalysisDirAt(t) : t \in 0..MaxClock}

LogsIdle ==
    /\ now = 0
    /\ entry = [i \in Invocations |-> "none"]
    /\ wpc = [i \in Invocations |-> "idle"]
    /\ outputDir = [i \in Invocations |-> NoDir]
    /\ tempFile = [d \in Dirs |-> FALSE]
    /\ fileStream = [i \in Invocations |-> "none"]
    /\ written = [i \in Invocations |-> "nothing"]
    /\ downloadResult = [i \in Invocations |-> NoReturn]
    /\ trace = [i \in Invocations |-> <<>>]
    /\ result = [i \in Invocations |-> NoReturn]

ApiIdle ==
    /\ env = <<>>
    /\ op = <<>>
    /\ opPc = "idle"
    /\ requests = <<>>
    /\ response = <<>>
    /\ opOutcome = NoReturn

AnalyzerIdle ==
    /\ folder = NoFolder
    /\ pc = "idle"
    /\ files = <<>>
    /\ fsOps = <<>>
    /\ outcome = NoReturn

InitExtract ==
    /\ content \in Texts
    /\ call = "none"
    /\ ret = NoReturn
    /\ AnalyzerIdle
    /\ LogsIdle
    /\ ApiIdle

ApplyExtractErrorDetails ==
    /\ call = "none"
    /\ call' = "extractErrorDetails"
    /\ ret' = Returned(extractErrorDetails(content))
    /\ UNCHANGED <<logsVars, apiVars, content, folder, pc, files, fsOps, outcome>>

ApplyContainsErrors ==
    /\ call = "none"
    /\ call' = "containsErrors"
    /\ ret' = Returned(containsErrors(content))
    /\ UNCHANGED <<logsVars, apiVars, content, folder, pc, files, fsOps, outcome>>

ApplyExtractRelevantContent ==
    /\ call = "none"
    /\ call' = "extractRelevantContent"
    /\ ret' = Returned(extractRelevantContent(content))
    /\ UNCHANGED <<logsVars, apiVars, content, folder, pc, files, fsOps, outcome>>

NextExtract ==
    \/ ApplyExtractErrorDetails
    \/ ApplyContainsErrors
    \/ ApplyExtractRelevantContent

SpecExtract == InitExtract /\ [][NextExtract]_vars

-----------------------------------------------------------------------------
(* log-analyzer.ts: analyzeBazelLogs *)

\* the three well-known names, as analyzeBazelLogs looks for them
SummaryPattern == <<"g","e","t"," ","e","r","r","o","r","s"," ","d","u","r","i","n","g"," ",
                    "w","o","r","k","f","l","o","w"," ","r","u","n",".","t","x","t">>
FailedTestPattern == <<"v","i","e","w"," ","f","a","i","l","e","d"," ","t","e","s","t"," ",
                       "l","o","g","s",".","t","x","t">>
BuildPattern == <<"b","u","i","l","d"," ","i","n","c","r","e","m","e","n","t","a","l",".","t","x","t">>

\* the predicates of the three files.find calls
\* the summary file looked for without lowering the name
isErrorSummaryFile_CaseSensitive(file) == includes(file, SummaryPattern)

isErrorSummaryFile(file) == includes(toLowerCase(file), SummaryPattern)
isFailedTestFile(file) == includes(toLowerCase(file), FailedTestPattern)
isBuildFile(file) == includes(toLowerCase(file), BuildPattern)

\* JavaScript's undefined, as files.find returns it; like "", it is falsy
Undefined == <<>>

\* Array.prototype.find, given the callback's answer for each element: the first
\* element it accepts, else undefined
find(a, accepts) ==
    LET i == findIndex(accepts)
    IN  IF i >= 0 THEN a[i + 1] ELSE Undefined

\* the entry of the folder that has this name
EntryNamed(file) ==
    folder.entries[CHOOSE i \in 1..Len(folder.entries) : folder.entries[i].name = file]

\* content.trim().length > 0, without the trim
hasContent_Untrimmed(c) == Len(c) > 0

\* content.trim().length > 0
hasContent(c) == Len(trim(c)) > 0

\* the values analyzeBazelLogs returns
FolderNotFound ==
    [success |-> FALSE,
     errorSummary |-> "Bazel logs folder not found",
     errorDetails |-> "Could not find '${bazelLogsFolderName}' folder in the extracted directory '${bazelLogsPath}'"]

WorkflowRunErrors(file, c) ==
    [success |-> FALSE,
     errorSummary |-> "Workflow run errors found",
     errorDetails |-> extractErrorDetails(c),
     sourceFile |-> file,
     relevantLogContent |-> c]

TestFailures(file, c) ==
    [success |-> FALSE,
     errorSummary |-> "Test failures detected",
     errorDetails |-> extractErrorDetails(c),
     sourceFile |-> file,
     relevantLogContent |-> c]

\* the build-log failure with the whole content as relevantLogContent, as in rules 1 and 2
BuildErrors_WholeContent(file, c) ==
    [success |-> FALSE,
     errorSummary |-> "Build errors detected",
     errorDetails |-> extractErrorDetails(c),
     sourceFile |-> file,
     relevantLogContent |-> c]

BuildErrors(file, c) ==
    [success |-> FALSE,
     errorSummary |-> "Build errors detected",
     errorDetails |-> extractErrorDetails(c),
     sourceFile |-> file,
     relevantLogContent |-> extractRelevantContent(c)]

BuildSuccess(file) ==
    [success |-> TRUE,
     errorSummary |-> "No errors found in build log",
     errorDetails |-> "Build appears successful",
     sourceFile |-> file]

\* the no-relevant-files result reported as a success
NoRelevantLogFiles_Success ==
    [success |-> TRUE,
     errorSummary |-> "No relevant log files found",
     errorDetails |-> "Could not find expected log files in '${bazelLogsFolderName}' folder"]

NoRelevantLogFiles ==
    [success |-> FALSE,
     errorSummary |-> "No relevant log files found",
     errorDetails |-> "Could not find expected log files in '${bazelLogsFolderName}' folder"]

ExistsOp == [op |-> "existsSync"]
ReaddirOp == [op |-> "readdirSync"]
ReadFileOp(file) == [op |-> "readFileSync", file |-> file]

ExtractorIdle ==
    /\ content = <<>>
    /\ call = "idle"
    /\ ret = NoReturn

\* fs.existsSync(bazelLogsPath), going on to readdirSync whatever it answers
CheckFolder_NoEarlyReturn ==
    /\ pc = "existsSync"
    /\ fsOps' = Append(fsOps, ExistsOp)
    /\ pc' = "readdirSync"
    /\ UNCHANGED <<logsVars, apiVars, content, call, ret, folder, files, outcome>>

\* if (!fs.existsSync(bazelLogsPath)) return {...}
CheckFolder ==
    /\ pc = "existsSync"
    /\ fsOps' = Append(fsOps, ExistsOp)
    /\ IF folder.kind = "absent"
       THEN /\ outcome' = Returned(FolderNotFound)
            /\ pc' = "done"
       ELSE /\ pc' = "readdirSync"
            /\ UNCHANGED outcome
    /\ UNCHANGED <<logsVars, apiVars, content, call, ret, folder, files>>

\* const files = fs.readdirSync(bazelLogsPath): throws unless the path is a directory
ListFiles ==
    /\ pc = "readdirSync"
    /\ fsOps' = Append(fsOps, ReaddirOp)
    /\ IF folder.kind = "directory"
       THEN /\ files' = [i \in 1..Len(folder.entries) |-> folder.entries[i].name]
            /\ pc' = "summary"
            /\ UNCHANGED outcome
       ELSE /\ outcome' = Thrown(IF folder.kind = "absent" THEN "ENOENT" ELSE "ENOTDIR")
            /\ pc' = "done"
            /\ UNCHANGED files
    /\ UNCHANGED <<logsVars, apiVars, content, call, ret, folder>>

\* Priority 1: the summarized errors file
SummaryRule ==
    /\ pc = "summary"
    /\ LET errorSummaryFile == find(files, [i \in 1..Len(files) |-> isErrorSummaryFile(files[i])])
       IN  IF errorSummaryFile # Undefined
           THEN /\ fsOps' = Append(fsOps, ReadFileOp(errorSummaryFile))
                /\ IF ~EntryNamed(errorSummaryFile).readable
                   THEN /\ outcome' = Thrown("readFileSync")
                        /\ pc' = "done"
                   ELSE IF hasContent(EntryNamed(errorSummaryFile).content)
                   THEN /\ outcome' = Returned(WorkflowRunErrors(errorSummaryFile,
                                                    EntryNamed(errorSummaryFile).content))
                        /\ pc' = "done"
                   ELSE /\ pc' = "failedTest"
                        /\ UNCHANGED outcome
           ELSE /\ pc' = "failedTest"
                /\ UNCHANGED <<fsOps, outcome>>
    /\ UNCHANGED <<logsVars, apiVars, content, call, ret, folder, files>>

\* Priority 2: the failed test logs
FailedTestRule ==
    /\ pc = "failedTest"
    /\ LET failedTestFile == find(files, [i \in 1..Len(files) |-> isFailedTestFile(files[i])])
       IN  IF failedTestFile # Undefined
           THEN /\ fsOps' = Append(fsOps, ReadFileOp(failedTestFile))
                /\ IF ~EntryNamed(failedTestFile).readable
                   THEN /\ outcome' = Thrown("readFileSync")
                        /\ pc' = "done"
                   ELSE IF hasContent(EntryNamed(failedTestFile).content)
                   THEN /\ outcome' = Returned(TestFailures(failedTestFile,
                                                    EntryNamed(failedTestFile).content))
                        /\ pc' = "done"
                   ELSE /\ pc' = "build"
                        /\ UNCHANGED outcome
           ELSE /\ pc' = "build"
                /\ UNCHANGED <<fsOps, outcome>>
    /\ UNCHANGED <<logsVars, apiVars, content, call, ret, folder, files>>

\* Priority 3: the build log
BuildRule ==
    /\ pc = "build"
    /\ LET buildFile == find(files, [i \in 1..Len(files) |-> isBuildFile(files[i])])
       IN  IF buildFile # Undefined
           THEN /\ fsOps' = Append(fsOps, ReadFileOp(buildFile))
                /\ pc' = "done"
                /\ IF ~EntryNamed(buildFile).readable
                   THEN outcome' = Thrown("readFileSync")
                   ELSE IF containsErrors(EntryNamed(buildFile).content)
                   THEN outcome' = Returned(BuildErrors(buildFile, EntryNamed(buildFile).content))
                   ELSE outcome' = Returned(BuildSuccess(buildFile))
           ELSE /\ pc' = "noFiles"
                /\ UNCHANGED <<fsOps, outcome>>
    /\ UNCHANGED <<logsVars, apiVars, content, call, ret, folder, files>>

\* the end of analyzeBazelLogs with the miss raised as an error
NoRelevantFiles_Throws ==
    /\ pc = "noFiles"
    /\ outcome' = Thrown("No relevant log files found")
    /\ pc' = "done"
    /\ UNCHANGED <<logsVars, apiVars, content, call, ret, folder, files, fsOps>>

\* No relevant log files found
NoRelevantFiles ==
    /\ pc = "noFiles"
    /\ outcome' = Returned(NoRelevantLogFiles)
    /\ pc' = "done"
    /\ UNCHANGED <<logsVars, apiVars, content, call, ret, folder, files, fsOps>>

-----------------------------------------------------------------------------
(* The folders analyzeBazelLogs is applied to *)

SummaryName == <<"5","_","G","e","t"," ","e","r","r","o","r","s"," ","d","u","r","i","n","g"," ",
                 "w","o","r","k","f","l","o","w"," ","r","u","n",".","t","x","t">>
SecondSummaryName == <<"G","e","t"," ","E","r","r","o","r","s"," ","D","u","r","i","n","g"," ",
                       "W","o","r","k","f","l","o","w"," ","R","u","n",".","t","x","t">>
FailedTestName == <<"V","i","e","w"," ","F","a","i","l","e","d"," ","T","e","s","t"," ",
                    "L","o","g","s",".","t","x","t">>
BuildName == <<"B","u","i","l","d"," ","I","n","c","r","e","m","e","n","t","a","l",".","t","x","t">>
\* a name none of the three rules looks for
OtherName == <<"B","u","i","l","d"," ","I","n","c","r","e","m","e","n","t","a","l",".","l","o","g">>

FileNames == {SummaryName, SecondSummaryName, FailedTestName, BuildName, OtherName}

\* whitespace only
BlankText == <<" ", "\n", "\t">>
\* "Compiling...\nBUILD FAILED: target //foo failed\nsee above\n"
FailureText ==
    <<"C","o","m","p","i","l","i","n","g",".",".",".","\n",
      "B","U","I","L","D"," ","F","A","I","L","E","D",":"," ",
      "t","a","r","g","e","t"," ","/","/","f","o","o"," ","f","a","i","l","e","d","\n",
      "s","e","e"," ","a","b","o","v","e","\n">>
\* more than 2000 characters, the error line far from both ends
LongFailureText == Text(MaxPre, ErrorLine, MaxPost, 1, FALSE, 2001)

\* more than 2000 characters, "ERROR" at the end of one line and ":" at the start of the
\* next: no line, and so not the text, holds an indicator
LongSplitText ==
    PadTo(join([i \in 1..MaxPre |-> Filler(i - 1, 1)]
                  \o << <<"E","R","R","O","R">>, <<":"," ","d","i","s","k">> >>
                  \o [i \in 1..MaxPost |-> Filler(i, 1)], NL), 2001)

FileTexts == {BlankText, FailureText}

\* a directory entry: its name, whether readFileSync succeeds on it, and its content.
\* The long text is the content of a summary file or a build log only, the texts
\* whose marker differs in case from the indicators or is split over two lines are the
\* content of a build log only (no other rule looks at the indicators), and the file no
\* rule looks for has one content. The files that cannot be read are the first-choice
\* file of each rule.
Entries ==
    [name : FileNames \ {OtherName}, readable : {TRUE}, content : FileTexts]
        \cup [name : {BuildName}, readable : {TRUE}, content : {MixedCaseLine, LongSplitText}]
        \cup [name : {SummaryName, BuildName}, readable : {TRUE}, content : {LongFailureText}]
        \cup [name : {OtherName}, readable : {TRUE}, content : {FailureText}]
        \cup [name : {SummaryName, FailedTestName, BuildName}, readable : {FALSE},
              content : {<<>>}]

\* directory listings of at most MaxFiles entries, in any order, names distinct
Listings ==
    UNION {
        {l \in [1..n -> Entries] : \A i, j \in 1..n : l[i].name = l[j].name => i = j} :
        n \in 0..MaxFiles }

Folders ==
    {[kind |-> "absent", entries |-> <<>>], [kind |-> "file", entries |-> <<>>]}
        \cup {[kind |-> "directory", entries |-> l] : l \in Listings}

Init ==
    /\ folder \in Folders
    /\ pc = "existsSync"
    /\ files = <<>>
    /\ fsOps = <<>>
    /\ outcome = NoReturn
    /\ ExtractorIdle
    /\ LogsIdle
    /\ ApiIdle

Next ==
    \/ CheckFolder
    \/ ListFiles
    \/ SummaryRule
    \/ FailedTestRule
    \/ BuildRule
    \/ NoRelevantFiles

Spec == Init /\ [][Next]_vars

-----------------------------------------------------------------------------
(* downloader.ts and workflow-logs: downloadAndUnzip, analyzeWorkflowLogs *)

\* An invocation runs from one await to the next without interruption (one thread):
\* each action below is the code between two awaits, and the write stream's own
\* steps (open, write, finish) happen in between.

\* a step an invocation has completed, with its argument or its value
Ev(name) == [ev |-> name, arg |-> <<>>]
EvArg(name, a) == [ev |-> name, arg |-> a]

Error(message) == [message |-> message]

\* how fetch(url) settles: it rejects, or resolves to a response
FetchOutcomes ==
    {[kind |-> "reject", ok |-> FALSE, body |-> "none"],
     [kind |-> "response", ok |-> FALSE, body |-> "stream"],
     [kind |-> "response", ok |-> TRUE, body |-> "null"],
     [kind |-> "response", ok |-> TRUE, body |-> "stream"]}

FetchRejected == "request to ${url} failed"
BodyIsNull == "Response body is null"
\* `HTTP error! Status: ${response.status}, Message: ${await response.text()}`
HttpErrors == {"HTTP error! Status: 404, Message: Not Found"}
StreamFailed == "ENOSPC: no space left on device, write"
OpenFailed == "EACCES: permission denied, open"
MkdirFailed == "EACCES: permission denied, mkdir"
ReaddirFailed == "EMFILE: too many open files, scandir"
\* `Error unzipping file: ${unzipProcess.error.message}`
UnzipSpawnFailed == "Error unzipping file: spawnSync unzip ENOENT"
\* `Unzip process exited with code ${unzipProcess.status}: ${unzipProcess.stderr.toString()}`
UnzipExited == "Unzip process exited with code 9: cannot find or open"

\* how spawnSync('unzip', ...) ends: it cannot be started, or exits with a status
UnzipOutcomes == {"error", "0", "9"}

\* the value downloadAndUnzip returns
DownloadSuccess(extractDir) ==
    [success |-> TRUE,
     message |-> "File downloaded and unzipped successfully to ${extractDir}",
     extractedDirectory |-> extractDir,
     files |-> "fs.readdirSync(extractDir)"]

\* the two failure values of analyzeWorkflowLogs
FailedToDownload(r) ==
    [success |-> FALSE,
     errorSummary |-> "Failed to download or extract logs",
     errorDetails |-> r.message]

AnalysisError(error) ==
    [success |-> FALSE,
     errorSummary |-> "Error analyzing workflow logs",
     errorDetails |-> error.message]

\* how analyzeBazelLogs ends on an extracted directory: the values and errors of its model
AnalyzerOutcomes ==
    {Returned(FolderNotFound),
     Returned(WorkflowRunErrors(SummaryName, FailureText)),
     Returned(BuildSuccess(BuildName)),
     Thrown("ENOTDIR")}

Orchestrated(i) == entry[i] = "analyzeWorkflowLogs"

\* the catch block of downloadAndUnzip leaving the file where it is
cleanUp_Skipped(d) == tempFile

\* the catch block of downloadAndUnzip: if (fs.existsSync(tempFilePath)) fs.unlinkSync(tempFilePath)
cleanUp(d) == [tempFile EXCEPT ![d] = FALSE]

\* fs.unlinkSync(tempFilePath) on the way to the return
unlinkSync(d) == [tempFile EXCEPT ![d] = FALSE]

\* the steps of the catch block on directory d, then of the catch block of analyzeWorkflowLogs
CatchSteps(i, d, error) ==
    (IF tempFile[d] THEN <<EvArg("catch: unlinkSync", d)>> ELSE <<>>)
        \o <<EvArg("throw", <<error.message>>)>>
        \o (IF Orchestrated(i) THEN <<Ev("catch")>> ELSE <<>>)

\* downloadAndUnzip throwing an error that analyzeWorkflowLogs lets through to its caller
DownloadFails_Escapes(i, error, done) ==
    /\ tempFile' = cleanUp(outputDir[i])
    /\ trace' = [trace EXCEPT ![i] = @ \o done \o CatchSteps(i, outputDir[i], error)]
    /\ result' = [result EXCEPT ![i] = Thrown(error)]
    /\ wpc' = [wpc EXCEPT ![i] = "done"]
    /\ UNCHANGED <<now, entry, outputDir, downloadResult>>

\* downloadAndUnzip reporting the error in a returned value, success=false with the
\* error's message, instead of re-raising it
DownloadFails_Reported(i, error, done) ==
    LET reported == Returned([success |-> FALSE, message |-> error.message])
    IN  /\ tempFile' = cleanUp(outputDir[i])
        /\ trace' = [trace EXCEPT ![i] =
                       @ \o done
                         \o (IF tempFile[outputDir[i]]
                             THEN <<EvArg("catch: unlinkSync", outputDir[i])>> ELSE <<>>)
                         \o <<Ev("downloadAndUnzip returns")>>]
        /\ downloadResult' = [downloadResult EXCEPT ![i] = reported]
        /\ IF Orchestrated(i)
           THEN /\ wpc' = [wpc EXCEPT ![i] = "downloaded"]
                /\ UNCHANGED result
           ELSE /\ wpc' = [wpc EXCEPT ![i] = "done"]
                /\ result' = [result EXCEPT ![i] = reported]
        /\ UNCHANGED <<now, entry, outputDir>>

\* downloadAndUnzip throws error out of its try block, after the steps done: the catch
\* block cleans up and re-raises; analyzeWorkflowLogs catches, a direct caller does not
DownloadFails(i, error, done) ==
    /\ tempFile' = cleanUp(outputDir[i])
    /\ trace' = [trace EXCEPT ![i] = @ \o done \o CatchSteps(i, outputDir[i], error)]
    /\ result' = [result EXCEPT ![i] =
                    IF Orchestrated(i) THEN Returned(AnalysisError(error)) ELSE Thrown(error)]
    /\ wpc' = [wpc EXCEPT ![i] = "done"]
    /\ UNCHANGED <<now, entry, outputDir, downloadResult>>

\* analyzeWorkflowLogs up to `await fetch(url)` inside downloadAndUnzip; new Date() reads
\* the clock, which has not gone back since it was last read
CallAnalyzeWorkflowLogs(i) ==
    /\ wpc[i] = "idle"
    /\ entry' = [entry EXCEPT ![i] = "analyzeWorkflowLogs"]
    /\ \E t \in now..MaxClock : now' = t
    /\ LET analysisDir == AnalysisDirAt(now')
       IN  /\ outputDir' = [outputDir EXCEPT ![i] = analysisDir]
           /\ \E mkdir \in {"ok", "throws"} :
                IF mkdir = "throws"
                THEN /\ trace' = [trace EXCEPT ![i] =
                                    <<EvArg("throw", <<MkdirFailed>>), Ev("catch")>>]
                     /\ result' = [result EXCEPT ![i] = Returned(AnalysisError(Error(MkdirFailed)))]
                     /\ wpc' = [wpc EXCEPT ![i] = "done"]
                ELSE /\ trace' = [trace EXCEPT ![i] =
                                    <<EvArg("mkdirSync", analysisDir), Ev("downloadAndUnzip"),
                                      Ev("fetch")>>]
                     /\ wpc' = [wpc EXCEPT ![i] = "fetch"]
                     /\ UNCHANGED result
    /\ UNCHANGED <<tempFile, fileStream, written, downloadResult>>
    /\ UNCHANGED <<analyzerVars, apiVars>>

\* a direct call of downloadAndUnzip on the default outputDir, up to `await fetch(url)`;
\* mkdirSync is outside the try block
CallDownloadAndUnzip(i) ==
    /\ wpc[i] = "idle"
    /\ entry' = [entry EXCEPT ![i] = "downloadAndUnzip"]
    /\ outputDir' = [outputDir EXCEPT ![i] = TmpDir]
    /\ \E mkdir \in {"exists", "ok", "throws"} :
         IF mkdir = "throws"
         THEN /\ trace' = [trace EXCEPT ![i] = <<EvArg("throw", <<MkdirFailed>>)>>]
              /\ result' = [result EXCEPT ![i] = Thrown(Error(MkdirFailed))]
              /\ wpc' = [wpc EXCEPT ![i] = "done"]
         ELSE /\ trace' = [trace EXCEPT ![i] =
                             (IF mkdir = "ok" THEN <<EvArg("mkdirSync", TmpDir)>> ELSE <<>>)
                                 \o <<Ev("downloadAndUnzip"), Ev("fetch")>>]
              /\ wpc' = [wpc EXCEPT ![i] = "fetch"]
              /\ UNCHANGED result
    /\ UNCHANGED <<now, tempFile, fileStream, written, downloadResult>>
    /\ UNCHANGED <<analyzerVars, apiVars>>

\* `await fetch(url)` settles: up to `await response.text()`, to `await pipeline(...)`,
\* or to the end of the call
FetchSettles(i) ==
    /\ wpc[i] = "fetch"
    /\ \E r \in FetchOutcomes :
         IF r.kind = "reject"
         THEN /\ DownloadFails(i, Error(FetchRejected), <<>>)
              /\ UNCHANGED <<fileStream, written>>
         ELSE IF ~r.ok
         THEN /\ wpc' = [wpc EXCEPT ![i] = "text"]
              /\ UNCHANGED <<now, entry, outputDir, tempFile, fileStream, written,
                             downloadResult, trace, result>>
         ELSE IF r.body = "null"
         THEN /\ fileStream' = [fileStream EXCEPT ![i] = "opening"]
              /\ DownloadFails(i, Error(BodyIsNull), <<EvArg("createWriteStream", outputDir[i])>>)
              /\ UNCHANGED written
         ELSE /\ fileStream' = [fileStream EXCEPT ![i] = "opening"]
              /\ trace' = [trace EXCEPT ![i] =
                             @ \o <<EvArg("createWriteStream", outputDir[i]), Ev("pipeline")>>]
              /\ wpc' = [wpc EXCEPT ![i] = "pipeline"]
              /\ UNCHANGED <<now, entry, outputDir, tempFile, written, downloadResult, result>>
    /\ UNCHANGED <<analyzerVars, apiVars>>

\* `await response.text()` settles and the HTTP error is thrown
TextSettles(i) ==
    /\ wpc[i] = "text"
    /\ \E message \in HttpErrors : DownloadFails(i, Error(message), <<>>)
    /\ UNCHANGED <<fileStream, written>>
    /\ UNCHANGED <<analyzerVars, apiVars>>

\* the write stream opens tempFilePath with flag 'w' (creating or truncating the file),
\* or fails to
StreamOpens(i) ==
    /\ fileStream[i] = "opening"
    /\ \E opened \in BOOLEAN :
         IF opened
         THEN /\ fileStream' = [fileStream EXCEPT ![i] = "open"]
              /\ tempFile' = [tempFile EXCEPT ![outputDir[i]] = TRUE]
         ELSE /\ fileStream' = [fileStream EXCEPT ![i] = "errored"]
              /\ UNCHANGED tempFile
    /\ UNCHANGED <<now, entry, wpc, outputDir, written, downloadResult, trace, result>>
    /\ UNCHANGED <<analyzerVars, apiVars>>

\* the pipeline moves a chunk of the body into the file (the last one or not), or one
\* of its streams fails
WriteChunk(i) ==
    /\ wpc[i] = "pipeline"
    /\ fileStream[i] = "open"
    /\ written[i] # "all"
    /\ \E chunk \in {"some", "all", "fails"} :
         IF chunk # "fails"
         THEN /\ written[i] # chunk
              /\ written' = [written EXCEPT ![i] = chunk]
              /\ UNCHANGED fileStream
         ELSE /\ fileStream' = [fileStream EXCEPT ![i] = "errored"]
              /\ UNCHANGED written
    /\ UNCHANGED <<now, entry, wpc, outputDir, tempFile, downloadResult, trace, result>>
    /\ UNCHANGED <<analyzerVars, apiVars>>

\* the body has ended and the stream has flushed and closed the file
StreamFinishes(i) ==
    /\ wpc[i] = "pipeline"
    /\ fileStream[i] = "open"
    /\ written[i] = "all"
    /\ fileStream' = [fileStream EXCEPT ![i] = "finished"]
    /\ UNCHANGED <<now, entry, wpc, outputDir, tempFile, written, downloadResult, trace, result>>
    /\ UNCHANGED <<analyzerVars, apiVars>>

\* the steps from spawnSync to the return of downloadAndUnzip, given how unzip ends and
\* whether readdirSync succeeds; unzip cannot exit with 0 on a file that is not there
AfterPipeline(i, unzip, listed) ==
    LET d == outputDir[i]
        spawned == <<Ev("pipeline resolved"), EvArg("spawnSync unzip", <<unzip>>)>>
    IN  IF unzip = "error"
        THEN DownloadFails(i, Error(UnzipSpawnFailed), spawned)
        ELSE IF unzip # "0" \/ ~tempFile[d]
        THEN DownloadFails(i, Error(UnzipExited),
                           <<Ev("pipeline resolved"), EvArg("spawnSync unzip", <<"9">>)>>)
        ELSE IF ~listed
        THEN /\ tempFile' = unlinkSync(d)
             /\ trace' = [trace EXCEPT ![i] =
                            @ \o spawned \o <<EvArg("unlinkSync", d),
                                              EvArg("throw", <<ReaddirFailed>>)>>
                              \o (IF Orchestrated(i) THEN <<Ev("catch")>> ELSE <<>>)]
             /\ result' = [result EXCEPT ![i] =
                             IF Orchestrated(i)
                             THEN Returned(AnalysisError(Error(ReaddirFailed)))
                             ELSE Thrown(Error(ReaddirFailed))]
             /\ wpc' = [wpc EXCEPT ![i] = "done"]
             /\ UNCHANGED <<now, entry, outputDir, downloadResult>>
        ELSE /\ tempFile' = unlinkSync(d)
             /\ trace' = [trace EXCEPT ![i] =
                            @ \o spawned \o <<EvArg("unlinkSync", d), EvArg("readdirSync", d),
                                              Ev("downloadAndUnzip returns")>>]
             /\ downloadResult' = [downloadResult EXCEPT ![i] = Returned(DownloadSuccess(d))]
             /\ IF Orchestrated(i)
                THEN /\ wpc' = [wpc EXCEPT ![i] = "downloaded"]
                     /\ UNCHANGED result
                ELSE /\ wpc' = [wpc EXCEPT ![i] = "done"]
                     /\ result' = [result EXCEPT ![i] = Returned(DownloadSuccess(d))]
             /\ UNCHANGED <<now, entry, outputDir>>

\* downloadAndUnzip going on to unzip without waiting for the pipeline
PipelineSettles_NotAwaited(i) ==
    /\ wpc[i] = "pipeline"
    /\ \E unzip \in UnzipOutcomes, listed \in BOOLEAN : AfterPipeline(i, unzip, listed)
    /\ UNCHANGED <<fileStream, written>>
    /\ UNCHANGED <<analyzerVars, apiVars>>

\* `await pipeline(response.body, fileStream)` settles once the stream has finished or
\* failed; then unzip, the deletion of the archive and the listing, to the end of
\* downloadAndUnzip
PipelineSettles(i) ==
    /\ wpc[i] = "pipeline"
    /\ fileStream[i] \in {"finished", "errored"}
    /\ IF fileStream[i] = "errored"
       THEN DownloadFails(i, Error(IF written[i] = "nothing" /\ ~tempFile[outputDir[i]]
                                   THEN OpenFailed ELSE StreamFailed),
                          <<Ev("pipeline rejected")>>)
       ELSE \E unzip \in UnzipOutcomes, listed \in BOOLEAN : AfterPipeline(i, unzip, listed)
    /\ UNCHANGED <<fileStream, written>>
    /\ UNCHANGED <<analyzerVars, apiVars>>

\* the analyzer applied to the configured outputDir instead of the extraction directory
extractedDir_OutputRoot(r) == <<"/tmp/workflow_logs">>

\* extractedDir: downloadResult.extractedDirectory
extractedDir(r) == r.extractedDirectory

\* analyzeWorkflowLogs after `await downloadAndUnzip(...)`: the success check, the
\* analyzer on the extracted directory, and the return
Analyze(i) ==
    /\ wpc[i] = "downloaded"
    /\ LET r == downloadResult[i].value
       IN  IF ~r.success
           THEN /\ result' = [result EXCEPT ![i] = Returned(FailedToDownload(r))]
                /\ trace' = [trace EXCEPT ![i] = Append(@, Ev("return"))]
           ELSE \E a \in AnalyzerOutcomes :
                  /\ trace' = [trace EXCEPT ![i] =
                                 @ \o <<EvArg("analyzeBazelLogs", extractedDir(r))>>
                                   \o (IF a.kind = "return"
                                       THEN <<EvArg("analyzeBazelLogs returns", <<a.value>>),
                                              Ev("return")>>
                                       ELSE <<EvArg("throw", <<a.error>>), Ev("catch")>>)]
                  /\ result' = [result EXCEPT ![i] =
                                  IF a.kind = "return"
                                  THEN Returned(a.value)
                                  ELSE Returned(AnalysisError(Error(a.error)))]
    /\ wpc' = [wpc EXCEPT ![i] = "done"]
    /\ UNCHANGED <<now, entry, outputDir, tempFile, fileStream, written, downloadResult>>
    /\ UNCHANGED <<analyzerVars, apiVars>>

\* concurrent invocations of analyzeWorkflowLogs with the same outputDir
InitLogs ==
    /\ LogsIdle
    /\ AnalyzerIdle
    /\ ExtractorIdle
    /\ ApiIdle

NextLogs ==
    \E i \in Invocations :
        \/ CallAnalyzeWorkflowLogs(i)
        \/ FetchSettles(i)
        \/ TextSettles(i)
        \/ StreamOpens(i)
        \/ WriteChunk(i)
        \/ StreamFinishes(i)
        \/ PipelineSettles(i)
        \/ Analyze(i)

SpecLogs == InitLogs /\ [][NextLogs]_vars

\* concurrent direct calls of downloadAndUnzip on the same outputDir; a file may be at
\* tempFilePath before the first of them
InitDownload ==
    /\ now = 0
    /\ entry = [i \in Invocations |-> "none"]
    /\ wpc = [i \in Invocations |-> "idle"]
    /\ outputDir = [i \in Invocations |-> NoDir]
    /\ tempFile \in {f \in [Dirs -> BOOLEAN] : \A d \in Dirs : f[d] => d = TmpDir}
    /\ fileStream = [i \in Invocations |-> "none"]
    /\ written = [i \in Invocations |-> "nothing"]
    /\ downloadResult = [i \in Invocations |-> NoReturn]
    /\ trace = [i \in Invocations |-> <<>>]
    /\ result = [i \in Invocations |-> NoReturn]
    /\ AnalyzerIdle
    /\ ExtractorIdle
    /\ ApiIdle

NextDownload ==
    \E i \in Invocations :
        \/ CallDownloadAndUnzip(i)
        \/ FetchSettles(i)
        \/ TextSettles(i)
        \/ StreamOpens(i)
        \/ WriteChunk(i)
        \/ StreamFinishes(i)
        \/ PipelineSettles(i)

SpecDownload == InitDownload /\ [][NextDownload]_vars

-----------------------------------------------------------------------------
(* workflows.ts and ci_workflows.ts: the workflow-run wrappers *)

\* an optional string: undefined, or a string (which may be empty)
Absent == <<>>
Str(x) == <<x>>
\* JavaScript truthiness of an optional string: undefined and '' are falsy
Truthy(v) == v # Absent /\ v[1] # ""
\* a || b
Or(a, b) == IF Truthy(a) THEN a ELSE b

OwnerRequired ==
    <<"Repository owner is required. Either provide it as a parameter or set GITHUB_OWNER environment variable.">>
RepoRequired ==
    <<"Repository name is required. Either provide it as a parameter or set GITHUB_REPO environment variable.">>
WorkflowIdRequired ==
    <<"Workflow ID is required. Either provide it as a parameter or set GITHUB_WORKFLOW_ID environment variable.">>
NoDownloadUrl == <<"No download URL found in the response headers">>

\* getOwnerAndRepo with the environment taking precedence over the parameters
getOwnerAndRepo_EnvFirst(providedOwner, providedRepo) ==
    LET owner == Or(env.GITHUB_OWNER, providedOwner)
        repo == Or(env.GITHUB_REPO, providedRepo)
    IN  IF ~Truthy(owner) THEN Thrown(Error(OwnerRequired))
        ELSE IF ~Truthy(repo) THEN Thrown(Error(RepoRequired))
        ELSE Returned([owner |-> owner[1], repo |-> repo[1]])

getOwnerAndRepo(providedOwner, providedRepo) ==
    LET owner == Or(providedOwner, env.GITHUB_OWNER)
        repo == Or(providedRepo, env.GITHUB_REPO)
    IN  IF ~Truthy(owner) THEN Thrown(Error(OwnerRequired))
        ELSE IF ~Truthy(repo) THEN Thrown(Error(RepoRequired))
        ELSE Returned([owner |-> owner[1], repo |-> repo[1]])

\* the request URL, as its path segments after https://api.github.com; the query
\* parameters (the filters) are left out
ApiRoot == "https://api.github.com"

\* fetch's redirect option, followed instead of manual
redirectMode_Follow == "follow"

\* redirect: "manual"
redirectMode == "manual"

\* a GET request by githubRequest (redirects followed) and by the raw fetch of the logs
\* wrappers
ApiRequest(path) == [url |-> <<ApiRoot>> \o path, method |-> "GET", redirect |-> "follow"]
RawRequest(path) == [url |-> <<ApiRoot>> \o path, method |-> "GET", redirect |-> redirectMode]

\* each wrapper up to its first await: the error it throws, or the request it issues
listWorkflowRuns(options) ==
    LET r == getOwnerAndRepo(options.owner, options.repo)
    IN  IF r.kind = "throw" THEN r
        ELSE Returned(ApiRequest(<<"repos", r.value.owner, r.value.repo, "actions", "runs">>))

getWorkflowRun(options) ==
    LET r == getOwnerAndRepo(options.owner, options.repo)
    IN  IF r.kind = "throw" THEN r
        ELSE Returned(ApiRequest(<<"repos", r.value.owner, r.value.repo, "actions", "runs",
                                   options.run_id>>))

listWorkflowRunsByWorkflowId(options) ==
    LET r == getOwnerAndRepo(options.owner, options.repo)
        workflow_id == Or(options.workflow_id, env.GITHUB_WORKFLOW_ID)
    IN  IF r.kind = "throw" THEN r
        ELSE IF ~Truthy(workflow_id) THEN Thrown(Error(WorkflowIdRequired))
        ELSE Returned(ApiRequest(<<"repos", r.value.owner, r.value.repo, "actions",
                                   "workflows", workflow_id[1], "runs">>))

getWorkflowRunLogs(options) ==
    LET r == getOwnerAndRepo(options.owner, options.repo)
    IN  IF r.kind = "throw" THEN r
        ELSE Returned(RawRequest(<<"repos", r.value.owner, r.value.repo, "actions", "runs",
                                   options.run_id, "logs">>))

listCiWorkflowRuns(options) ==
    Returned(ApiRequest(<<"repos", "askscio", "scio", "actions", "runs">>))

getCiWorkflowRun(options) ==
    Returned(ApiRequest(<<"repos", "askscio", "scio", "actions", "runs", options.run_id>>))

listCiWorkflowRunsForBranch(options) ==
    Returned(ApiRequest(<<"repos", "askscio", "scio", "actions", "workflows",
                          "bazel_pr_runner.yml", "runs">>))

getCiWorkflowRunLogs(options) ==
    Returned(RawRequest(<<"repos", "askscio", "scio", "actions", "runs", options.run_id,
                          "logs">>))

WorkflowsWrappers ==
    {"listWorkflowRuns", "getWorkflowRun", "listWorkflowRunsByWorkflowId", "getWorkflowRunLogs"}
CiWrappers ==
    {"listCiWorkflowRuns", "getCiWorkflowRun", "listCiWorkflowRunsForBranch",
     "getCiWorkflowRunLogs"}
LogsWrappers == {"getWorkflowRunLogs", "getCiWorkflowRunLogs"}

UpToFirstAwait(o) ==
    CASE o.name = "listWorkflowRuns" -> listWorkflowRuns(o.options)
      [] o.name = "getWorkflowRun" -> getWorkflowRun(o.options)
      [] o.name = "listWorkflowRunsByWorkflowId" -> listWorkflowRunsByWorkflowId(o.options)
      [] o.name = "getWorkflowRunLogs" -> getWorkflowRunLogs(o.options)
      [] o.name = "listCiWorkflowRuns" -> listCiWorkflowRuns(o.options)
      [] o.name = "getCiWorkflowRun" -> getCiWorkflowRun(o.options)
      [] o.name = "listCiWorkflowRunsForBranch" -> listCiWorkflowRunsForBranch(o.options)
      [] o.name = "getCiWorkflowRunLogs" -> getCiWorkflowRunLogs(o.options)

\* what the server answers: a status and possibly a location header
Statuses == {"200", "301", "302", "404"}
RedirectTarget == "https://logs.example.com/archive.zip"
Responses ==
    [kind : {"response"}, status : Statuses,
     location : {Absent, Str(""), Str(RedirectTarget)}]
        \cup {[kind |-> "reject", status |-> "none", location |-> Absent]}

\* the response the caller of fetch sees: with redirects followed, a 3xx answer with a
\* location is not seen; the target is requested and its answer is
IsRedirect(r) == r.kind = "response" /\ r.status \in {"301", "302"} /\ Truthy(r.location)
TargetResponse == [kind |-> "response", status |-> "200", location |-> Absent]
TargetRequest == [url |-> <<RedirectTarget>>, method |-> "GET", redirect |-> "follow"]

\* the message of the error thrown on a status that is not 302
\* `Failed to get logs download URL: ${response.status} ${response.statusText}\n${errorBody}`
NotARedirect(r) ==
    <<"Failed to get logs download URL: ", r.status, " ${response.statusText}", "\n",
      "${errorBody}">>

\* the wrapper runs up to its first await: a configuration error, or the request is out
IssueRequest ==
    /\ opPc = "called"
    /\ LET first == UpToFirstAwait(op)
       IN  IF first.kind = "throw"
           THEN /\ opOutcome' = first
                /\ opPc' = "done"
                /\ UNCHANGED requests
           ELSE /\ requests' = Append(requests, first.value)
                /\ opPc' = "awaiting"
                /\ UNCHANGED opOutcome
    /\ UNCHANGED <<env, op, response>>
    /\ UNCHANGED <<analyzerVars, logsVars>>

\* the request settles: githubRequest returns the parsed body or throws; the logs
\* wrappers look at the status and the location header
ResponseArrives ==
    /\ opPc = "awaiting"
    /\ \E answer \in Responses :
         LET followed == requests[1].redirect = "follow" /\ IsRedirect(answer)
             seen == IF followed THEN TargetResponse ELSE answer
         IN  /\ response' = seen
             /\ requests' = IF followed THEN Append(requests, TargetRequest) ELSE requests
             /\ IF seen.kind = "reject"
                THEN /\ opOutcome' = Thrown(Error(<<"fetch failed">>))
                     /\ opPc' = "done"
                ELSE IF op.name \in LogsWrappers
                THEN IF seen.status # "302"
                     THEN /\ opPc' = "text"
                          /\ UNCHANGED opOutcome
                     ELSE /\ opPc' = "done"
                          /\ opOutcome' = IF ~Truthy(seen.location)
                                          THEN Thrown(Error(NoDownloadUrl))
                                          ELSE Returned([download_url |-> seen.location[1]])
                ELSE /\ opPc' = "done"
                     /\ opOutcome' = IF seen.status = "200"
                                     THEN Returned("Schema.parse(response)")
                                     ELSE Thrown(Error(<<"GitHub API error: ", seen.status>>))
    /\ UNCHANGED <<env, op>>
    /\ UNCHANGED <<analyzerVars, logsVars>>

\* `await response.text()` settles and the error for the unexpected status is thrown
ErrorBodyArrives ==
    /\ opPc = "text"
    /\ opOutcome' = Thrown(Error(NotARedirect(response)))
    /\ opPc' = "done"
    /\ UNCHANGED <<env, op, requests, response>>
    /\ UNCHANGED <<analyzerVars, logsVars>>

\* the values of an optional parameter and of an environment variable
ParamOwners == {Absent, Str(""), Str("octocat")}
ParamRepos == {Absent, Str("hello-world")}
ParamWorkflowIds == {Absent, Str(""), Str("ci.yml")}
EnvOwners == {Absent, Str(""), Str("acme")}
EnvRepos == {Absent, Str("widgets")}
EnvWorkflowIds == {Absent, Str("nightly.yml")}

Options == [owner : ParamOwners, repo : ParamRepos, workflow_id : ParamWorkflowIds,
            run_id : {"42"}]
Environments ==
    [GITHUB_OWNER : EnvOwners, GITHUB_REPO : EnvRepos, GITHUB_WORKFLOW_ID : EnvWorkflowIds]

InitApi ==
    /\ env \in Environments
    /\ op \in [name : WorkflowsWrappers \cup CiWrappers, options : Options]
    /\ opPc = "called"
    /\ requests = <<>>
    /\ response = <<>>
    /\ opOutcome = NoReturn
    /\ AnalyzerIdle
    /\ ExtractorIdle
    /\ LogsIdle

NextApi ==
    \/ IssueRequest
    \/ ResponseArrives
    \/ ErrorBodyArrives

SpecApi == InitApi /\ [][NextApi]_vars

-----------------------------------------------------------------------------
(* Properties of the extractors, under SpecExtract *)

\* the lines of the text the extractor was applied to
InputLines == split(content, NL)

\* p occurs in s when letter case is ignored
OccursIgnoringCase(p, s) ==
    \E i \in 0..(Len(s) - Len(p)) :
        \A k \in 1..Len(p) : LowerChar(s[i + k]) = LowerChar(p[k])

\* s matches ERROR:|FAILED:|Exception:|error:|failed:|BUILD FAILED, case-insensitively
MatchesIgnoringCase(s) ==
    \/ OccursIgnoringCase(<<"e","r","r","o","r",":">>, s)
    \/ OccursIgnoringCase(<<"f","a","i","l","e","d",":">>, s)
    \/ OccursIgnoringCase(<<"e","x","c","e","p","t","i","o","n",":">>, s)
    \/ OccursIgnoringCase(<<"b","u","i","l","d"," ","f","a","i","l","e","d">>, s)

\* the 1-based numbers of the input lines that match
MatchingLines == {i \in 1..Len(InputLines) : MatchesIgnoringCase(InputLines[i])}

\* s holds one of the seven case-sensitive indicator substrings
HasIndicator(s) ==
    \E t \in { <<"E","R","R","O","R",":">>, <<"F","A","I","L","E","D",":">>,
               <<"B","U","I","L","D"," ","F","A","I","L","E","D">>,
               <<"E","x","c","e","p","t","i","o","n",":">>,
               <<"e","r","r","o","r",":">>, <<"f","a","i","l","e","d",":">>,
               <<"E","x","e","c","u","t","i","o","n"," ","f","a","i","l","e","d">> } :
        \E i \in 0..(Len(s) - Len(t)) : \A k \in 1..Len(t) : s[i + k] = t[k]

\* the 1-based numbers of the input lines that hold an indicator
IndicatorLines == {i \in 1..Len(InputLines) : HasIndicator(InputLines[i])}

Least(S) == CHOOSE i \in S : \A j \in S : i <= j

\* input lines a..b (1-based, inclusive), joined by newlines
LinesFromTo(a, b) == join([i \in 1..(b - a + 1) |-> InputLines[a + i - 1]], NL)

C8_FallbackPrefix ==
    (call = "extractErrorDetails" /\ ~MatchesIgnoringCase(content)) =>
        IF Len(content) <= 500
        THEN ret.value = content
        ELSE ret.value = SubSeq(content, 1, 500) \o <<".", ".", ".">>

\* a text of more than 500 characters without a match, cut and marked
C8_Witness ==
    /\ call = "extractErrorDetails"
    /\ ~MatchesIgnoringCase(content)
    /\ Len(content) > 500
    /\ Len(ret.value) = 503

\* C9 as claimed: for a text of more than 2000 characters with an indicator line,
\* extractRelevantContent returns the lines from 5 before the first indicator line
\* up to and including 15 after it, clamped to the text.
C9_WindowFifteenAfter ==
    (call = "extractRelevantContent" /\ Len(content) > 2000 /\ IndicatorLines # {}) =>
        ret.value = LinesFromTo(Max(1, Least(IndicatorLines) - 5),
                                Min(Len(InputLines), Least(IndicatorLines) + 15))

\* C10: extractRelevantContent returns a text of at most 2000 characters unchanged.
C10_ShortUnchanged ==
    (call = "extractRelevantContent" /\ Len(content) <= 2000) => ret.value = content

\* a text of exactly 2000 characters whose window would leave lines out
C10_Witness ==
    /\ call = "extractRelevantContent"
    /\ Len(content) = 2000
    /\ IndicatorLines # {}
    /\ Least(IndicatorLines) > 6
    /\ ret.value = content

\* the text between the head and the tail: an empty line, a line "...", an empty line
EllipsisMarker == <<NL, NL, ".", ".", ".", NL, NL>>

\* C11: for a text of more than 2000 characters none of whose lines holds an indicator,
\* extractRelevantContent returns the first 10 lines (all lines when there are fewer),
\* then the ellipsis marker, then the last 20 lines (all lines when there are fewer).
C11_HeadTailFallback ==
    (call = "extractRelevantContent" /\ Len(content) > 2000 /\ IndicatorLines = {}) =>
        ret.value = LinesFromTo(1, Min(10, Len(InputLines)))
                        \o EllipsisMarker
                        \o LinesFromTo(Max(1, Len(InputLines) - 19), Len(InputLines))

\* a text of more than 30 lines: the head and the tail leave a line out
C11_Witness ==
    /\ call = "extractRelevantContent"
    /\ Len(content) > 2000
    /\ IndicatorLines = {}
    /\ Len(InputLines) > 30
    /\ Len(split(ret.value, NL)) = 33

-----------------------------------------------------------------------------
(* Properties of downloadAndUnzip, under SpecDownload *)

\* the positions of the steps named name in the trace of invocation i
Steps(i, name) == {k \in 1..Len(trace[i]) : trace[i][k].ev = name}
HasStep(i, name) == Steps(i, name) # {}
Done(i) == wpc[i] = "done"

\* C12: a call of downloadAndUnzip that has begun writing the archive (it is at
\* `await pipeline`) ends, by return or by throw, with no file at tempFilePath, whichever
\* step failed; and when it throws with a file there, the file is deleted (by the catch
\* block, or by line 62 when it is readdirSync that fails) before the error is raised to
\* the caller.
C12_ArchiveRemoved ==
    [][\A i \in Invocations :
        (wpc[i] = "pipeline" /\ wpc'[i] = "done") =>
            /\ ~tempFile'[outputDir[i]]
            /\ (result'[i].kind = "throw" /\ tempFile[outputDir[i]]) =>
                 \E j \in 1..Len(trace'[i]), k \in 1..Len(trace'[i]) :
                    /\ j < k
                    /\ trace'[i][j].ev \in {"unlinkSync", "catch: unlinkSync"}
                    /\ trace'[i][k].ev = "throw"]_vars

\* a call whose unzip exited with a non-zero status: the archive it wrote is gone
C12_Witness ==
    \E i \in Invocations :
        /\ Done(i)
        /\ result[i] = Thrown(Error(UnzipExited))
        /\ HasStep(i, "catch: unlinkSync")
        /\ ~tempFile[TmpDir]

\* invocation i has thrown before it began to write: fetch rejected, the HTTP status was
\* not a success, or the body was null
FailedBeforeWriting(i) ==
    /\ Done(i)
    /\ HasStep(i, "fetch") /\ HasStep(i, "throw")
    /\ ~HasStep(i, "pipeline")

\* C23 as claimed: a call of downloadAndUnzip that fails before it has written anything
\* throws with no file at tempFilePath, whatever was there (a file from before the call,
\* or the archive of a concurrent call on the same outputDir), and it never creates a
\* file at that path itself, not even after it has thrown.
C23_EarlyFailureLeavesNoFile ==
    [][\A i \in Invocations :
        /\ (wpc[i] \in {"fetch", "text"} /\ wpc'[i] = "done") => ~tempFile'[outputDir[i]]
        /\ FailedBeforeWriting(i) =>
              ~(fileStream[i] = "opening" /\ fileStream'[i] = "open"
                    /\ tempFile'[outputDir[i]])]_vars

-----------------------------------------------------------------------------
(* Properties of analyzeWorkflowLogs, under SpecLogs *)

\* the messages of the errors thrown in invocation i
ThrownMessages(i) == {trace[i][k].arg[1] : k \in Steps(i, "throw")}

\* C13: analyzeWorkflowLogs ends by returning, never by throwing; and when an error was
\* thrown at any stage (mkdirSync, fetch, the HTTP status, the stream, unzip, readdirSync,
\* the analyzer), the value is success=false, "Error analyzing workflow logs", with the
\* error's message as errorDetails.
C13_NoExceptionEscapes ==
    \A i \in Invocations :
        Done(i) =>
            /\ result[i].kind = "return"
            /\ \A message \in ThrownMessages(i) :
                 result[i].value = [success |-> FALSE,
                                    errorSummary |-> "Error analyzing workflow logs",
                                    errorDetails |-> message]

\* an I/O error raised by the analyzer, after a download that succeeded
C13_Witness ==
    \E i \in Invocations :
        /\ Done(i)
        /\ HasStep(i, "analyzeBazelLogs")
        /\ ThrownMessages(i) = {"ENOTDIR"}
        /\ result[i].kind = "return"
        /\ result[i].value.errorDetails = "ENOTDIR"

FetcherFailed(i) == HasStep(i, "downloadAndUnzip") /\ ~HasStep(i, "downloadAndUnzip returns")
FetcherSucceeded(i) == HasStep(i, "downloadAndUnzip returns")

\* C14: when downloadAndUnzip failed, analyzeBazelLogs is not invoked and the value is a
\* failure whose errorDetails is the fetcher's message; when it succeeded, the analyzer
\* is invoked exactly once, on the extractedDirectory the fetcher returned, and a value it
\* returns is the value of analyzeWorkflowLogs.
C14_AnalyzerOnlyAfterFetch ==
    \A i \in Invocations :
        Done(i) =>
            /\ FetcherFailed(i) =>
                 /\ ~HasStep(i, "analyzeBazelLogs")
                 /\ result[i].kind = "return"
                 /\ result[i].value.success = FALSE
                 /\ ThrownMessages(i) = {result[i].value.errorDetails}
            /\ FetcherSucceeded(i) =>
                 /\ Cardinality(Steps(i, "analyzeBazelLogs")) = 1
                 /\ \A k \in Steps(i, "analyzeBazelLogs") :
                      /\ trace[i][k].arg = downloadResult[i].value.extractedDirectory
                      /\ trace[i][k].arg = outputDir[i]
                 /\ \A k \in Steps(i, "analyzeBazelLogs returns") :
                      result[i] = Returned(trace[i][k].arg[1])

\* one invocation whose fetcher failed at unzip and one whose analyzer returned a value
C14_Witness ==
    \E i, j \in Invocations :
        /\ Done(i) /\ Done(j)
        /\ FetcherFailed(i) /\ result[i].value.errorDetails = UnzipExited
        /\ FetcherSucceeded(j) /\ HasStep(j, "analyzeBazelLogs returns")
        /\ result[j].value = BuildSuccess(BuildName)

\* C15 as claimed: two invocations of analyzeWorkflowLogs never work in the same
\* analysis directory.
C15_FreshDirectories ==
    \A i, j \in Invocations :
        (i # j /\ Orchestrated(i) /\ Orchestrated(j)) => outputDir[i] # outputDir[j]

\* C19: in one invocation, unzip is started only once the stream has written the whole
\* body and finished; the archive is deleted on the way to the return, and the directory
\* listed, only after unzip exited with status 0; analyzeBazelLogs is invoked only after
\* downloadAndUnzip returned; and while the pipeline is awaited neither unzip nor the
\* analyzer has been started.
C19_StepsInSequence ==
    \A i \in Invocations :
        /\ HasStep(i, "spawnSync unzip") => (fileStream[i] = "finished" /\ written[i] = "all")
        /\ \A k \in Steps(i, "unlinkSync") \cup Steps(i, "readdirSync") :
             \E j \in 1..(k - 1) : trace[i][j] = EvArg("spawnSync unzip", <<"0">>)
        /\ \A k \in Steps(i, "analyzeBazelLogs") :
             \E j \in 1..(k - 1) : trace[i][j].ev = "downloadAndUnzip returns"
        /\ wpc[i] = "pipeline" =>
             (~HasStep(i, "spawnSync unzip") /\ ~HasStep(i, "analyzeBazelLogs"))

\* an invocation that went through every step, another one still writing
C19_Witness ==
    \E i, j \in Invocations :
        /\ Done(i)
        /\ HasStep(i, "readdirSync")
        /\ HasStep(i, "analyzeBazelLogs returns")
        /\ wpc[j] = "pipeline" /\ written[j] = "some"

\* C22: downloadAndUnzip returns no value with success=false: a value it returns has
\* success=true, and when it fails it has thrown and returned nothing. So
\* analyzeWorkflowLogs never ends with "Failed to download or extract logs", and every
\* failure of the fetcher ends it with "Error analyzing workflow logs".
C22_FetcherFailsByThrowing ==
    \A i \in Invocations :
        /\ downloadResult[i].kind \in {"none", "return"}
        /\ downloadResult[i].kind = "return" =>
              /\ downloadResult[i].value.success = TRUE
              /\ HasStep(i, "downloadAndUnzip returns")
        /\ Done(i) =>
              /\ result[i].kind = "return" =>
                    result[i].value.errorSummary # "Failed to download or extract logs"
              /\ FetcherFailed(i) =>
                    /\ downloadResult[i] = NoReturn
                    /\ ThrownMessages(i) # {}
                    /\ result[i].kind = "return"
                    /\ result[i].value.success = FALSE
                    /\ result[i].value.errorSummary = "Error analyzing workflow logs"

\* one fetcher failed on the HTTP status, one on a stream error, and both invocations
\* ended with "Error analyzing workflow logs"
C22_Witness ==
    \E i, j \in Invocations :
        /\ Done(i) /\ Done(j)
        /\ FetcherFailed(i) /\ ThrownMessages(i) \subseteq HttpErrors
        /\ FetcherFailed(j) /\ ThrownMessages(j) = {StreamFailed}
        /\ result[i].value.errorSummary = "Error analyzing workflow logs"
        /\ result[j].value.errorSummary = "Error analyzing workflow logs"

-----------------------------------------------------------------------------
(* Properties of the workflow-run wrappers, under SpecApi *)

Called == opPc # "called"
Settled == opPc = "done"
ByWorkflow == {"listWorkflowRunsByWorkflowId", "listCiWorkflowRunsForBranch"}

\* a parameter or an environment value that is given: a string that is not empty
Provided(v) == v # Absent /\ v[1] # ""

\* the value the caller configured: the parameter when provided, else the environment value
Configured(param, envValue) == IF Provided(param) THEN param ELSE envValue

\* the owner, repository and workflow segments of a request URL
\* https://api.github.com/repos/{owner}/{repo}/actions/workflows/{workflow_id}/runs
OwnerOf(request) == request.url[3]
RepoOf(request) == request.url[4]
WorkflowOf(request) == request.url[7]

\* C16: every wrapper, the CI variants included, addresses the repository (and the
\* workflow) given in its parameters when provided, else the one configured in
\* GITHUB_OWNER / GITHUB_REPO / GITHUB_WORKFLOW_ID.
C16_AddressesConfiguredRepository ==
    (Called /\ requests # <<>>) =>
        LET owner == Configured(op.options.owner, env.GITHUB_OWNER)
            repo == Configured(op.options.repo, env.GITHUB_REPO)
            workflow_id == Configured(op.options.workflow_id, env.GITHUB_WORKFLOW_ID)
        IN  /\ Provided(owner) /\ OwnerOf(requests[1]) = owner[1]
            /\ Provided(repo) /\ RepoOf(requests[1]) = repo[1]
            /\ op.name \in ByWorkflow =>
                  Provided(workflow_id) /\ WorkflowOf(requests[1]) = workflow_id[1]

\* C17: in workflows.ts, for owner, repo and workflow_id, a provided (non-empty) parameter
\* takes precedence over the environment value; without it the environment value is used;
\* when neither is there the call fails with the error that names the missing value and
\* the variable to set, and no request has been issued.
C17_EnvironmentBackedDefaults ==
    (Called /\ op.name \in WorkflowsWrappers) =>
        LET o == op.options
            noOwner == ~Provided(o.owner) /\ ~Provided(env.GITHUB_OWNER)
            noRepo == ~Provided(o.repo) /\ ~Provided(env.GITHUB_REPO)
            noWorkflow == /\ op.name = "listWorkflowRunsByWorkflowId"
                          /\ ~Provided(o.workflow_id) /\ ~Provided(env.GITHUB_WORKFLOW_ID)
        IN  IF noOwner THEN opOutcome = Thrown(Error(OwnerRequired)) /\ requests = <<>>
            ELSE IF noRepo THEN opOutcome = Thrown(Error(RepoRequired)) /\ requests = <<>>
            ELSE IF noWorkflow
            THEN opOutcome = Thrown(Error(WorkflowIdRequired)) /\ requests = <<>>
            ELSE /\ requests # <<>>
                 /\ OwnerOf(requests[1]) =
                        IF Provided(o.owner) THEN o.owner[1] ELSE env.GITHUB_OWNER[1]
                 /\ RepoOf(requests[1]) =
                        IF Provided(o.repo) THEN o.repo[1] ELSE env.GITHUB_REPO[1]
                 /\ op.name = "listWorkflowRunsByWorkflowId" =>
                        WorkflowOf(requests[1]) =
                            IF Provided(o.workflow_id) THEN o.workflow_id[1]
                            ELSE env.GITHUB_WORKFLOW_ID[1]

\* the owner parameter is the empty string and GITHUB_OWNER is set, the repository is given
\* nowhere: the call has failed on the repository name without a request
C17_Witness ==
    /\ Settled
    /\ op.name \in WorkflowsWrappers
    /\ op.options.owner = Str("") /\ Provided(env.GITHUB_OWNER)
    /\ op.options.repo = Absent /\ env.GITHUB_REPO = Absent
    /\ opOutcome = Thrown(Error(RepoRequired))
    /\ requests = <<>>

\* C18: getWorkflowRunLogs and getCiWorkflowRunLogs issue a single GET with redirects not
\* followed; download_url is returned, and is the location header, exactly when the status
\* is 302 and the header has a (non-empty) value; any other status ends in the error that
\* carries the status and the body, a 302 without location in an error; the redirect
\* target is never requested.
C18_LogsRedirect ==
    op.name \in LogsWrappers =>
        /\ Len(requests) <= 1
        /\ \A k \in 1..Len(requests) :
              /\ requests[k].method = "GET"
              /\ requests[k].redirect = "manual"
              /\ requests[k].url # <<RedirectTarget>>
        /\ (Settled /\ requests # <<>> /\ response.kind = "response") =>
              /\ opOutcome.kind = "return" <=>
                    (response.status = "302" /\ Provided(response.location))
              /\ opOutcome.kind = "return" =>
                    opOutcome.value = [download_url |-> response.location[1]]
              /\ response.status # "302" =>
                    opOutcome = Thrown(Error(NotARedirect(response)))
              /\ (response.status = "302" /\ ~Provided(response.location)) =>
                    opOutcome = Thrown(Error(NoDownloadUrl))

\* a 302 with a location: the URL is returned and only the API was requested
C18_Witness ==
    /\ Settled
    /\ op.name \in LogsWrappers
    /\ Len(requests) = 1
    /\ response.kind = "response" /\ response.status = "302"
    /\ opOutcome = Returned([download_url |-> RedirectTarget])

-----------------------------------------------------------------------------
(* Properties of analyzeBazelLogs, under Spec *)

Listed == folder.entries
Finished == pc = "done"
IsDirectory == folder.kind = "directory"

\* the 1-based positions of the listed entries whose name holds p, letter case ignored
NamedLike(p) == {i \in 1..Len(Listed) : OccursIgnoringCase(p, Listed[i].name)}

\* The summary file, the failed-test file and the build-log file of a folder: where
\* several names match, the first of them in the order of the listing.
SummaryFiles == NamedLike(SummaryPattern)
FailedTestFiles == NamedLike(FailedTestPattern)
BuildFiles == NamedLike(BuildPattern)
TheFile(S) == Listed[Least(S)]

IsBlank(c) == \A i \in 1..Len(c) : c[i] \in {" ", "\t", "\n", "\r"}

\* a file of this kind is present, can be read, and is not blank
Fires(S) == S # {} /\ TheFile(S).readable /\ ~IsBlank(TheFile(S).content)
\* no file of this kind, or one that is blank
Passes(S) == S = {} \/ (TheFile(S).readable /\ IsBlank(TheFile(S).content))
\* a file of this kind is present and blank
PresentButBlank(S) == S # {} /\ TheFile(S).readable /\ IsBlank(TheFile(S).content)

ReturnedResult == outcome.kind = "return"
Result == outcome.value
HasSourceFile(r) == "sourceFile" \in DOMAIN r
ReadsOf(f) == {i \in 1..Len(fsOps) : fsOps[i] = ReadFileOp(f)}

\* C1: when the summary file is present with content that is not blank, the result is
\* success=false, "Workflow run errors found", with the summary file as sourceFile and
\* never the failed-test or the build-log file, whatever else the folder holds.
C1_SummaryFilePriority ==
    (Finished /\ IsDirectory /\ Fires(SummaryFiles)) =>
        /\ ReturnedResult
        /\ Result.success = FALSE
        /\ Result.errorSummary = "Workflow run errors found"
        /\ Result.sourceFile = TheFile(SummaryFiles).name
        /\ \A i \in FailedTestFiles \cup BuildFiles : Result.sourceFile # Listed[i].name

\* the summary file, a failed-test file and a build log, none of them blank
C1_Witness ==
    /\ Finished /\ IsDirectory
    /\ Fires(SummaryFiles) /\ Fires(FailedTestFiles) /\ Fires(BuildFiles)
    /\ ReturnedResult
    /\ Result.errorSummary = "Workflow run errors found"

\* what rules 3 and 4 make of the folder
BuildRuleVerdict(r) ==
    IF BuildFiles = {}
    THEN r.errorSummary = "No relevant log files found" /\ ~HasSourceFile(r)
    ELSE /\ r.sourceFile = TheFile(BuildFiles).name
         /\ r.errorSummary = IF HasIndicator(TheFile(BuildFiles).content)
                             THEN "Build errors detected"
                             ELSE "No errors found in build log"

\* what rules 2, 3 and 4 make of the folder, the summary file not looked at
FailedTestRuleVerdict(r) ==
    IF Fires(FailedTestFiles)
    THEN r.errorSummary = "Test failures detected" /\ r.sourceFile = TheFile(FailedTestFiles).name
    ELSE BuildRuleVerdict(r)

\* the files a later rule reads can be read
LaterReadsSucceed ==
    /\ FailedTestFiles # {} => TheFile(FailedTestFiles).readable
    /\ (Passes(FailedTestFiles) /\ BuildFiles # {}) => TheFile(BuildFiles).readable

\* C2: a summary file that is present but blank does not end the evaluation: the
\* failed-test rule is evaluated next and the result is what rules 2 to 4 give without
\* a summary file; likewise a blank failed-test file leads on to the build-log rule.
C2_BlankFallsThrough ==
    (Finished /\ IsDirectory /\ LaterReadsSucceed) =>
        /\ PresentButBlank(SummaryFiles) =>
            /\ ReturnedResult
            /\ FailedTestRuleVerdict(Result)
            /\ FailedTestFiles # {} =>
                 \E i \in ReadsOf(TheFile(SummaryFiles).name) :
                    fsOps[i + 1] = ReadFileOp(TheFile(FailedTestFiles).name)
        /\ (Passes(SummaryFiles) /\ PresentButBlank(FailedTestFiles)) =>
            /\ ReturnedResult
            /\ BuildRuleVerdict(Result)
            /\ BuildFiles # {} =>
                 \E i \in ReadsOf(TheFile(FailedTestFiles).name) :
                    fsOps[i + 1] = ReadFileOp(TheFile(BuildFiles).name)

\* a blank summary file, a blank failed-test file, and the build log decides
C2_Witness ==
    /\ Finished /\ IsDirectory
    /\ PresentButBlank(SummaryFiles) /\ PresentButBlank(FailedTestFiles)
    /\ BuildFiles # {}
    /\ ReturnedResult
    /\ Result.sourceFile = TheFile(BuildFiles).name

\* the build-log failure case: rules 1 and 2 did not fire, the build log has an indicator
BuildFailureCase ==
    /\ Finished /\ IsDirectory
    /\ Passes(SummaryFiles) /\ Passes(FailedTestFiles)
    /\ BuildFiles # {} /\ TheFile(BuildFiles).readable
    /\ HasIndicator(TheFile(BuildFiles).content)

\* C3 as claimed: in the build-log failure case errorSummary is "Build errors detected"
\* and errorDetails is what the relevant-content extractor makes of the build log.
C3_DetailsByRelevantContentExtractor ==
    BuildFailureCase =>
        /\ ReturnedResult
        /\ Result.errorSummary = "Build errors detected"
        /\ Result.errorDetails = extractRelevantContent(TheFile(BuildFiles).content)

\* C3, amended: in the build-log failure case errorSummary is "Build errors detected",
\* relevantLogContent is what the relevant-content extractor makes of the build log and
\* errorDetails what the error-detail extractor makes of it; for the summary and
\* failed-test files errorDetails comes from the error-detail extractor too, and
\* relevantLogContent is the whole content.
C3_ExtractorPerField ==
    /\ BuildFailureCase =>
        /\ ReturnedResult
        /\ Result.errorSummary = "Build errors detected"
        /\ Result.relevantLogContent = extractRelevantContent(TheFile(BuildFiles).content)
        /\ Result.errorDetails = extractErrorDetails(TheFile(BuildFiles).content)
    /\ (Finished /\ IsDirectory /\ Fires(SummaryFiles)) =>
        /\ Result.relevantLogContent = TheFile(SummaryFiles).content
        /\ Result.errorDetails = extractErrorDetails(TheFile(SummaryFiles).content)
    /\ (Finished /\ IsDirectory /\ Passes(SummaryFiles) /\ Fires(FailedTestFiles)) =>
        /\ Result.relevantLogContent = TheFile(FailedTestFiles).content
        /\ Result.errorDetails = extractErrorDetails(TheFile(FailedTestFiles).content)

\* a build log of more than 2000 characters, which the two extractors cut differently
C3_Witness ==
    /\ BuildFailureCase
    /\ Len(TheFile(BuildFiles).content) > 2000
    /\ Result.relevantLogContent # TheFile(BuildFiles).content
    /\ Result.relevantLogContent # Result.errorDetails

\* C4: when rules 1 and 2 do not fire and the build log holds none of the seven
\* case-sensitive indicators, the result is success=true, "No errors found in build
\* log", with the build log as sourceFile.
C4_BuildLogSuccess ==
    ( /\ Finished /\ IsDirectory
      /\ Passes(SummaryFiles) /\ Passes(FailedTestFiles)
      /\ BuildFiles # {} /\ TheFile(BuildFiles).readable
      /\ ~HasIndicator(TheFile(BuildFiles).content) ) =>
        /\ ReturnedResult
        /\ Result.success = TRUE
        /\ Result.errorSummary = "No errors found in build log"
        /\ Result.sourceFile = TheFile(BuildFiles).name

\* a build log that is not blank and holds "Error:", which only differs in letter case
C4_Witness ==
    /\ Finished /\ IsDirectory
    /\ Passes(SummaryFiles) /\ Passes(FailedTestFiles)
    /\ BuildFiles # {} /\ TheFile(BuildFiles).readable
    /\ MatchesIgnoringCase(TheFile(BuildFiles).content)
    /\ ReturnedResult
    /\ Result.success = TRUE

\* C5: when the subfolder does not exist, the result is success=false, "Bazel logs
\* folder not found", and the directory is never listed and no file ever read.
C5_FolderNotFound ==
    folder.kind = "absent" =>
        /\ \A i \in 1..Len(fsOps) : fsOps[i] = ExistsOp
        /\ Finished =>
            /\ ReturnedResult
            /\ Result.success = FALSE
            /\ Result.errorSummary = "Bazel logs folder not found"

\* the call has ended on a missing subfolder
C5_Witness ==
    /\ Finished
    /\ folder.kind = "absent"
    /\ fsOps = <<ExistsOp>>
    /\ ReturnedResult

\* C6: when the subfolder exists and none of its names is one of the three, the call
\* does not throw: it returns success=false, "No relevant log files found", without
\* sourceFile.
C6_NoRelevantFiles ==
    ( /\ Finished /\ IsDirectory
      /\ SummaryFiles = {} /\ FailedTestFiles = {} /\ BuildFiles = {} ) =>
        /\ ReturnedResult
        /\ Result.success = FALSE
        /\ Result.errorSummary = "No relevant log files found"
        /\ ~HasSourceFile(Result)

\* a folder that holds a file, with a name none of the rules looks for
C6_Witness ==
    /\ Finished /\ IsDirectory
    /\ Len(Listed) > 0
    /\ SummaryFiles = {} /\ FailedTestFiles = {} /\ BuildFiles = {}
    /\ ReturnedResult

\* the lines of a text, and its head/tail composite: the first 10 lines, the ellipsis
\* marker, the last 20 lines
LinesOf(c) == split(c, NL)
HeadTail(c) ==
    LET lines == LinesOf(c)
        n == Len(lines)
    IN  join(SubSeq(lines, 1, Min(10, n)), NL) \o EllipsisMarker
            \o join(SubSeq(lines, Max(1, n - 19), n), NL)
\* the 1-based numbers of the lines of c that hold an indicator
IndicatorLinesOf(c) ==
    LET lines == LinesOf(c)
    IN  {i \in 1..Len(lines) : HasIndicator(lines[i])}
\* the lines of c from 5 before its first indicator line to 14 after it
WindowOf(c) ==
    LET lines == LinesOf(c)
        first == Least(IndicatorLinesOf(c))
    IN  join(SubSeq(lines, Max(1, first - 5), Min(Len(lines), first + 14)), NL)

\* C20: analyzeBazelLogs never returns the head/tail composite. The relevant-content
\* extractor is applied to a build log in which containsErrors found an indicator only;
\* such a log has a line that holds an indicator, so when it has more than 2000
\* characters relevantLogContent is the window around the first such line.
C20_FallbackUnreachable ==
    (Finished /\ ReturnedResult /\ Result.errorSummary = "Build errors detected") =>
        LET c == TheFile(BuildFiles).content
        IN  /\ IndicatorLinesOf(c) # {}
            /\ Len(c) > 2000 =>
                  /\ Result.relevantLogContent = WindowOf(c)
                  /\ Result.relevantLogContent # HeadTail(c)

\* a build log of more than 2000 characters with an indicator line, cut to the window
C20_Witness ==
    /\ Finished /\ ReturnedResult
    /\ Result.errorSummary = "Build errors detected"
    /\ Len(TheFile(BuildFiles).content) > 2000
    /\ Len(Result.relevantLogContent) < 2000

HasRelevantLogContent(r) == "relevantLogContent" \in DOMAIN r

\* the one situation of success: the folder is a directory, the summary file and the
\* failed-test file are absent or blank, and the build log is there without an indicator
CleanBuild ==
    /\ IsDirectory
    /\ Passes(SummaryFiles) /\ Passes(FailedTestFiles)
    /\ BuildFiles # {} /\ TheFile(BuildFiles).readable
    /\ ~HasIndicator(TheFile(BuildFiles).content)

\* C21: a result of analyzeBazelLogs has success=true exactly when the subfolder exists,
\* neither the summary file nor the failed-test file has content that is not blank, and
\* the build log is present without an indicator; every other result has success=false.
\* A result with success=false and a sourceFile carries relevantLogContent; the result
\* with success=true carries sourceFile and no relevantLogContent.
C21_SuccessOnlyForCleanBuild ==
    (Finished /\ ReturnedResult) =>
        /\ Result.success \in BOOLEAN
        /\ Result.success = TRUE <=> CleanBuild
        /\ (Result.success = FALSE /\ HasSourceFile(Result)) => HasRelevantLogContent(Result)
        /\ Result.success = TRUE => (HasSourceFile(Result) /\ ~HasRelevantLogContent(Result))

\* a blank summary file, a blank failed-test file and a build log without an indicator:
\* success, with the build log as sourceFile and no relevantLogContent
C21_Witness ==
    /\ Finished /\ ReturnedResult
    /\ PresentButBlank(SummaryFiles) /\ PresentButBlank(FailedTestFiles)
    /\ Result.success = TRUE
    /\ Result.sourceFile = TheFile(BuildFiles).name
    /\ ~HasRelevantLogContent(Result)

====
